---- MODULE Spec2Model ----
(***************************************************************************)
(* CO2 x heart-rate fusion pipeline of co2biologger.                       *)
(*                                                                         *)
(* Time is in whole seconds.  A CO2 minute row is [timestamp, co2_ppm]; a  *)
(* heart-rate row is [timestamp, hr_bpm]; a fused row is                   *)
(* [timestamp, co2_ppm, hr_bpm].  The columns temp_c, humidity_pct         *)
(* travel with co2_ppm in the left row, and source, context travel with    *)
(* hr_bpm in the right row, so they are not carried separately.            *)
(***************************************************************************)
EXTENDS Integers, Sequences, FiniteSets, TLC

VARIABLES
    jco2,    \* join study: the primary (per-minute CO2) series
    jhr,     \* join study: the secondary (heart-rate) series, in file order
    jtol,    \* join study: the tolerance in seconds
    jout,    \* join study: the fused table of the latest join
    jprev,   \* join study: the fused table of the join before it
    jruns,   \* join study: number of joins run over these inputs
    raw,     \* RAW_DIR: day -> bio_<day>.csv, one row per ingested payload
    flat,    \* FLAT_DIR: day -> hr_<day>.csv, one row per heart-rate beat
    co2,     \* CO2_DIR: day -> the lines of the day's co2_<day>T*.json files
    fused,   \* FUSED_DIR: day -> fused_<day>.csv (fusionv3)
    fusedV2, \* ~/biologger: day -> fused_<day>.csv (fusionv2)
    flatNewest, \* day of the flat file modified last (0: none yet)
    v2from,  \* history: days of the CO2 and flat files fusionv2 fused last
    pc,      \* fusionv3: position of the run
    queue,   \* fusionv3: raw files still to be visited, in mtime order
    cur,     \* fusionv3: day of the raw file being processed (0: none)
    hr,      \* fusionv3: the day's heart-rate frame
    co2df,   \* fusionv3: the day's per-minute CO2 frame
    merged,  \* fusionv3: the day's fused table
    report,  \* fusionv3: day -> what the run printed for the day
    runs,    \* number of fusionv3 runs started
    ingests, \* number of POST /health calls served
    dayState,     \* history: day -> stage the run has brought the day to
    decoded,      \* history: day -> beats flatten_hr decoded in this run
    wrote,        \* history: day -> the run opened fused_<day>.csv for writing
    lastComplete, \* history: day -> the last table written to the end
    snap,         \* history: outputs and report as the previous run left them
    inputsChanged, \* history: a raw file changed since the latest run started
    co2text,   \* decoder study: the lines of one CO2 log file, as text
    records,   \* decoder study: the records load_day_co2 read from the lines
    recordsV2, \* decoder study: the records fusionv2's reader read from them
    co2_1m,    \* decoder study: the per-minute frame load_day_co2 returned
    cdone,     \* decoder study: the readers that have run ("v3", "v2")
    calls,     \* history: the payloads POSTed to /health, in call order
    acks       \* history: what each call returned to the phone

varsJoin == <<jco2, jhr, jtol, jout, jprev, jruns>>
varsFiles == <<raw, flat, co2, fused, fusedV2, flatNewest, v2from>>
varsRun == <<pc, queue, cur, hr, co2df, merged, report, runs>>
varsHist == <<dayState, decoded, wrote, lastComplete, snap>>
varsPipeline == <<varsFiles, varsRun, ingests, varsHist, inputsChanged>>
varsDecode == <<co2text, records, recordsV2, co2_1m, cdone>>
varsPost == <<calls, acks>>
vars == <<jco2, jhr, jtol, jout, jprev, jruns, raw, flat, co2, fused, fusedV2,
          flatNewest, v2from, pc, queue, cur, hr, co2df, merged, report, runs, ingests,
          dayState, decoded, wrote, lastComplete, snap, inputsChanged,
          co2text, records, recordsV2, co2_1m, cdone, calls, acks>>

\* pandas' missing value (NaN / None) in a numeric column
NaN == -1
\* a key a dict does not hold (dict.get falls back, dict[...] raises KeyError)
Missing == -2

\* ------------------------------------------------------------------------
\* Bounds of the join model
\* ------------------------------------------------------------------------
\* number of minute slots a primary series may populate (00:00 .. 00:04)
MaxMin == 5
\* largest number of rows of a secondary series
MaxHr == 2
\* how often the join is repeated over the same inputs
MaxJoinRuns == 2

\* the three tolerances of the pipeline generations, in seconds
Tol90 == 90
Tol180 == 180
Tol600 == 600
Tolerances == {Tol90, Tol180, Tol600}

\* width of a CO2 bucket, resample("60s")
BucketWidth == 60

SetMax(S) == CHOOSE x \in S : \A y \in S : y <= x
SetMin(S) == CHOOSE x \in S : \A y \in S : x <= y
Abs(x) == IF x < 0 THEN -x ELSE x

RECURSIVE SeqsUpTo(_, _)
SeqsUpTo(S, n) ==
    IF n = 0 THEN {<<>>}
    ELSE LET shorter == SeqsUpTo(S, n - 1)
         IN  shorter \cup {Append(s, x) : s \in {q \in shorter : Len(q) = n - 1}, x \in S}

RECURSIVE SetToSortedSeq(_)
SetToSortedSeq(S) ==
    IF S = {} THEN <<>>
    ELSE LET m == SetMax(S) IN Append(SetToSortedSeq(S \ {m}), m)

\* ------------------------------------------------------------------------
\* DataFrame.sort_values("timestamp"): numpy's default sort is an insertion
\* sort for the small frames considered here, hence stable.
\* ------------------------------------------------------------------------
RECURSIVE InsertByTs(_, _)
InsertByTs(sorted, row) ==
    IF sorted = <<>> THEN <<row>>
    ELSE IF sorted[Len(sorted)].timestamp <= row.timestamp
         THEN Append(sorted, row)
         ELSE Append(InsertByTs(SubSeq(sorted, 1, Len(sorted) - 1), row),
                     sorted[Len(sorted)])

RECURSIVE sort_values(_)
sort_values(df) ==
    IF df = <<>> THEN <<>>
    ELSE InsertByTs(sort_values(SubSeq(df, 1, Len(df) - 1)), df[Len(df)])

\* ------------------------------------------------------------------------
\* pd.merge_asof(left, right, on="timestamp", direction="nearest",
\*               tolerance=tol), left and right sorted by timestamp.
\* Positions are 1-based; 0 stands for pandas' -1 (no row).
\* ------------------------------------------------------------------------
\* mutant: the tolerance edge is excluded
WithinTolStrict(diff, tol) == diff < tol
\* a candidate survives when it is not farther than tol (diff > tol drops it)
WithinTol(diff, tol) == diff <= tol

\* last right row at or before t, dropped when farther than tol
BackwardPos(t, right, tol) ==
    LET S == {j \in 1..Len(right) : right[j].timestamp <= t}
        p == IF S = {} THEN 0 ELSE SetMax(S)
    IN  IF p # 0 /\ ~WithinTol(t - right[p].timestamp, tol) THEN 0 ELSE p

\* first right row at or after t, dropped when farther than tol
ForwardPos(t, right, tol) ==
    LET S == {j \in 1..Len(right) : right[j].timestamp >= t}
        p == IF S = {} THEN 0 ELSE SetMin(S)
    IN  IF p # 0 /\ ~WithinTol(right[p].timestamp - t, tol) THEN 0 ELSE p

\* mutant: a tie goes to the later candidate
PickNearestLater(t, right, b, f) ==
    IF b # 0 /\ f # 0
    THEN IF t - right[b].timestamp < right[f].timestamp - t THEN b ELSE f
    ELSE IF b # 0 THEN b ELSE f
\* the candidate with the smaller difference; on a tie the backward one
PickNearest(t, right, b, f) ==
    IF b # 0 /\ f # 0
    THEN IF t - right[b].timestamp <= right[f].timestamp - t THEN b ELSE f
    ELSE IF b # 0 THEN b ELSE f

\* mutant: direction="backward"
NearestPosBackward(t, right, tol) == BackwardPos(t, right, tol)
\* position of the right row merged into the left row stamped t
NearestPos(t, right, tol) ==
    PickNearest(t, right, BackwardPos(t, right, tol), ForwardPos(t, right, tol))

FusedRow(l, right, p) ==
    [timestamp |-> l.timestamp, co2_ppm |-> l.co2_ppm,
     hr_bpm |-> IF p = 0 THEN NaN ELSE right[p].hr_bpm]

RECURSIVE DropUnmatched(_)
DropUnmatched(rows) ==
    IF rows = <<>> THEN <<>>
    ELSE LET rest == DropUnmatched(SubSeq(rows, 2, Len(rows)))
         IN  IF rows[1].hr_bpm = NaN THEN rest ELSE <<rows[1]>> \o rest

\* mutant: an inner join, left rows without a match are lost
merge_asof_inner(left, right, tol) ==
    DropUnmatched([i \in 1..Len(left) |->
        FusedRow(left[i], right, NearestPos(left[i].timestamp, right, tol))])
\* one fused row per left row, in left order
merge_asof(left, right, tol) ==
    [i \in 1..Len(left) |->
        FusedRow(left[i], right, NearestPos(left[i].timestamp, right, tol))]

\* ------------------------------------------------------------------------
\* Bounds of the pipeline model
\* ------------------------------------------------------------------------
\* calendar days with files; the clock stands at the last one
NumDays == 2
\* fusionv3 runs started
MaxRuns == 2
\* POST /health calls served
MaxIngest == 1

Days == 1..NumDays
\* dt.date.today() / pd.Timestamp.now(tz=...).date()
Today == NumDays
\* first second of calendar day d
DayStart(d) == d * 86400

\* ------------------------------------------------------------------------
\* Timestamps as text: "iso" carries a UTC offset (wall time t, offset off),
\* "naive" carries none, "bad" does not parse, "missing" is a key the
\* entry does not hold.
\* ------------------------------------------------------------------------
Date(kind, t, off) == [kind |-> kind, t |-> t, off |-> off]
BadDate == Date("bad", 0, 0)

\* pd.to_datetime(cell, utc=True).tz_convert(None) of a cell that parses:
\* the instant on the UTC clock; NaT where errors="coerce" lets text that
\* does not parse through
to_datetime_utc(cell) ==
    IF cell.kind = "iso" THEN cell.t - cell.off
    ELSE IF cell.kind = "naive" THEN cell.t
    ELSE NaN

\* ------------------------------------------------------------------------
\* Payloads of the phone (Health Auto Export).  shape "wrapped" is
\* {"data": {"metrics": [...]}}, "top" is {"metrics": [...]}, "junk" holds
\* no metrics at all.  beats are the data[] entries of the heart_rate metric.
\* ------------------------------------------------------------------------
Beat(date, avg, value, min, max) ==
    [date |-> date, Avg |-> avg, value |-> value, Min |-> min, Max |-> max]
Payload(shape, beats) == [shape |-> shape, beats |-> beats]

\* one beat at 00:03:20 UTC of day d, stamped in local time with offset -0700
PayloadWrapped(d) ==
    Payload("wrapped", <<Beat(Date("iso", DayStart(d) + 200 - 25200, -25200), 70, Missing, 68, 72)>>)
\* one beat whose date does not parse
PayloadBadDate(d) ==
    Payload("wrapped", <<Beat(BadDate, 71, Missing, 69, 73)>>)
\* one beat that carries only Min and Max
PayloadMinMax(d) ==
    Payload("wrapped", <<Beat(Date("iso", DayStart(d) + 200 - 25200, -25200), Missing, Missing, 60, 90)>>)
\* a payload without metrics
PayloadJunk == Payload("junk", <<>>)
\* metrics at the top level: one beat at 00:03:50 of day d, no offset
PayloadTop(d) ==
    Payload("top", <<Beat(Date("naive", DayStart(d) + 230, 0), Missing, 80, Missing, Missing)>>)

File(rows) == [exists |-> TRUE, rows |-> rows]
NoFile == [exists |-> FALSE, rows |-> <<>>]

\* dict.get(key, default)
DictGet(v, default) == IF v = Missing THEN default ELSE v
\* beat.get("Avg", beat.get("value"))
HrValue(beat) == DictGet(beat.Avg, DictGet(beat.value, NaN))
FlatRow(beat) == [timestamp |-> beat.date, hr_bpm |-> HrValue(beat)]

\* ------------------------------------------------------------------------
\* health_ingest.py: POST /health
\* ------------------------------------------------------------------------
\* pd.to_datetime(rec["date"]) raises on a missing key or unparsable text
IngestRaises(p) ==
    /\ p.shape = "top"
    /\ \E i \in 1..Len(p.beats) : p.beats[i].date.kind \in {"bad", "missing"}
\* payload.get("metrics", []) sees only metrics at the top level
IngestRows(p) ==
    IF p.shape = "top" THEN [i \in 1..Len(p.beats) |-> FlatRow(p.beats[i])] ELSE <<>>

IngestPayloads == {PayloadTop(Today), PayloadWrapped(Today)}

\* ------------------------------------------------------------------------
\* fusionv3.py: flatten_hr
\* ------------------------------------------------------------------------
\* the entries of one raw row up to the first one without a date: beat["date"]
\* raises KeyError there, the rows appended before it stay
RECURSIVE BeatRows(_)
BeatRows(beats) ==
    IF beats = <<>> \/ beats[1].date.kind = "missing" THEN <<>>
    ELSE <<FlatRow(beats[1])>> \o BeatRows(Tail(beats))

\* payload["data"]["metrics"] raises for a row that is not wrapped
DecodeRawRow(payload) ==
    IF payload.shape = "wrapped" THEN BeatRows(payload.beats) ELSE <<>>

RECURSIVE FlattenRows(_)
FlattenRows(rawRows) ==
    IF rawRows = <<>> THEN <<>>
    ELSE DecodeRawRow(rawRows[1]) \o FlattenRows(Tail(rawRows))

\* mutant: the flat file is appended to (mode="a") instead of rewritten
FlatAfterFlattenAppend(old, rows) ==
    IF rows # <<>> THEN File(old.rows \o rows) ELSE old
\* if rows: DataFrame(rows).to_csv(flat_csv): the file is rewritten, and
\* left as it is when nothing was decoded
FlatAfterFlatten(old, rows) ==
    IF rows # <<>> THEN File(rows) ELSE old

\* ------------------------------------------------------------------------
\* A line of a CO2 log as text.  The tokens of a line: " " white space (the
\* line end included), "," the element separator, "[" and "]" the array
\* brackets, "{}" one complete object, "{" an object cut short by a writer
\* that is still appending.  obj is the record the object stands for.
\* ------------------------------------------------------------------------
TextLine(text, obj) == [text |-> text, obj |-> obj]

RECURSIVE lstrip(_, _)
lstrip(s, ch) == IF s # <<>> /\ Head(s) = ch THEN lstrip(Tail(s), ch) ELSE s
RECURSIVE rstrip(_, _)
rstrip(s, ch) ==
    IF s # <<>> /\ s[Len(s)] = ch THEN rstrip(SubSeq(s, 1, Len(s) - 1), ch) ELSE s
\* str.strip()
strip(s) == rstrip(lstrip(s, " "), " ")
\* json.loads(ln) returns the object when ln is one complete object with at
\* most white space around it, and raises JSONDecodeError otherwise
json_loads_ok(s) == strip(s) = <<"{}">>
\* if ln in ("", "[", "]"): continue
IsStructural(s) == s \in {<<>>, <<"[">>, <<"]">>}

\* mutant: a line that fails to parse ends the read
RECURSIVE ReadRecordsStop(_)
ReadRecordsStop(lines) ==
    IF lines = <<>> THEN <<>>
    ELSE LET ln == rstrip(strip(lines[1].text), ",")
         IN  IF IsStructural(ln) THEN ReadRecordsStop(Tail(lines))
             ELSE IF json_loads_ok(ln) THEN <<lines[1].obj>> \o ReadRecordsStop(Tail(lines))
             ELSE <<>>
\* fusionv3.py, the loop over the lines: ln.strip().rstrip(","), structural
\* and blank lines skipped, json.loads tried, JSONDecodeError swallowed
RECURSIVE ReadRecords(_)
ReadRecords(lines) ==
    IF lines = <<>> THEN <<>>
    ELSE LET ln == rstrip(strip(lines[1].text), ",")
         IN  IF IsStructural(ln) THEN ReadRecords(Tail(lines))
             ELSE IF json_loads_ok(ln) THEN <<lines[1].obj>> \o ReadRecords(Tail(lines))
             ELSE ReadRecords(Tail(lines))

\* if line.endswith(","): line = line[:-1]
DropTrailingComma(s) ==
    IF s # <<>> /\ s[Len(s)] = "," THEN SubSeq(s, 1, Len(s) - 1) ELSE s
\* fusionv2.py, the loop over the lines: the structural test comes before
\* the comma is dropped, and one comma is dropped
RECURSIVE ReadRecordsV2(_)
ReadRecordsV2(lines) ==
    IF lines = <<>> THEN <<>>
    ELSE LET ln == strip(lines[1].text)
         IN  IF IsStructural(ln) THEN ReadRecordsV2(Tail(lines))
             ELSE IF json_loads_ok(DropTrailingComma(ln))
                  THEN <<lines[1].obj>> \o ReadRecordsV2(Tail(lines))
             ELSE ReadRecordsV2(Tail(lines))

\* ------------------------------------------------------------------------
\* fusionv3.py: load_day_co2
\* ------------------------------------------------------------------------
Co2Line(kind, ts, ppm) == [kind |-> kind, timestamp |-> ts, co2_ppm |-> ppm]

RECURSIVE GCD(_, _)
GCD(a, b) == IF b = 0 THEN a ELSE GCD(b, a % b)
\* the mean sum/n as a fraction in lowest terms
Mean(sum, n) == LET g == GCD(sum, n) IN [num |-> sum \div g, den |-> n \div g]
\* the mean of no value at all
NaNMean == [num |-> NaN, den |-> 1]

RECURSIVE SumPpm(_)
SumPpm(rows) == IF rows = <<>> THEN 0 ELSE rows[1].co2_ppm + SumPpm(Tail(rows))

\* json.loads succeeded on the line
IsRecord(ln) == ln.kind = "rec"
\* errors="coerce" turns unparsable text into NaT, dropna removes the row
HasInstant(ln) == to_datetime_utc(ln.timestamp) # NaN
\* the record carries a co2_ppm value (not null)
HasPpm(ln) == ln.co2_ppm # NaN
\* mutant: buckets closed on the right, (k*60 - 60, k*60], labelled k*60
BucketRightClosed(ln) ==
    ((to_datetime_utc(ln.timestamp) + BucketWidth - 1) \div BucketWidth) * BucketWidth
\* resample("60s"): buckets closed on the left, labelled by their left edge
Bucket(ln) == (to_datetime_utc(ln.timestamp) \div BucketWidth) * BucketWidth
InBucket(k, ln) == Bucket(ln) = k

\* .set_index("timestamp").resample("60s").mean(): one row per bucket from
\* the first to the last bucket that holds a record; the mean leaves null
\* values out and is NaN for a bucket that holds no value
resample_mean(recs) ==
    LET bs == {Bucket(recs[i]) : i \in 1..Len(recs)}
        n == (SetMax(bs) - SetMin(bs)) \div BucketWidth + 1
    IN  [i \in 1..n |->
            LET k == SetMin(bs) + (i - 1) * BucketWidth
                members == SelectSeq(recs, LAMBDA ln : InBucket(k, ln) /\ HasPpm(ln))
            IN  [timestamp |-> k,
                 co2_ppm |-> IF members = <<>> THEN NaNMean
                             ELSE Mean(SumPpm(members), Len(members))]]

HasMean(row) == row.co2_ppm # NaNMean
\* .dropna()
dropna(rows) == SelectSeq(rows, HasMean)

load_day_co2(lines) ==
    LET recs == SelectSeq(SelectSeq(lines, IsRecord), HasInstant)
    IN  IF recs = <<>> THEN <<>> ELSE dropna(resample_mean(recs))

\* ------------------------------------------------------------------------
\* fusionv3.py: the heart-rate frame of the main loop
\* ------------------------------------------------------------------------
\* pd.to_datetime(df["timestamp"], utc=True) has no errors="coerce"
ReadHrRaises(rows) == \E i \in 1..Len(rows) : rows[i].timestamp.kind = "bad"
HasHr(row) == row.hr_bpm # NaN
HrInstant(row) == [timestamp |-> to_datetime_utc(row.timestamp), hr_bpm |-> row.hr_bpm]
\* mutant: rows without an hr_bpm stay in the frame
ReadHrKeepNull(rows) == [i \in 1..Len(rows) |-> HrInstant(rows[i])]
\* read_csv(...).assign(timestamp=...).dropna(subset=["hr_bpm"])
ReadHr(rows) == SelectSeq([i \in 1..Len(rows) |-> HrInstant(rows[i])], HasHr)

SkipHr == [kind |-> "skip_hr", co2n |-> 0, hrn |-> 0, fusedn |-> 0, matches |-> 0]
SkipCo2 == [kind |-> "skip_co2", co2n |-> 0, hrn |-> 0, fusedn |-> 0, matches |-> 0]
NoReport == [kind |-> "none", co2n |-> 0, hrn |-> 0, fusedn |-> 0, matches |-> 0]
\* the four counts printed after a write
WroteReport(c, h, m) ==
    [kind |-> "wrote", co2n |-> Len(c), hrn |-> Len(h), fusedn |-> Len(m),
     matches |-> Cardinality({i \in 1..Len(m) : m[i].hr_bpm # NaN})]

\* ------------------------------------------------------------------------
\* State after installation, with the input files of the days drawn
\* ------------------------------------------------------------------------
\* bio_<day>.csv as earlier POST /health calls left it.  None of these
\* payloads holds top-level metrics, so none of them wrote to the flat store.
RawChoices(d) ==
    {NoFile, File(<<PayloadWrapped(d)>>), File(<<PayloadBadDate(d)>>),
     File(<<PayloadMinMax(d)>>), File(<<PayloadJunk>>)}

\* the CO2 lines of day d: none, or samples at 00:00:10, 00:00:40 and
\* 00:01:05 (UTC, "Z") followed by a line cut short by the writer
Co2Choices(d) ==
    {<<>>,
     <<Co2Line("rec", Date("iso", DayStart(d) + 10, 0), 600),
       Co2Line("rec", Date("iso", DayStart(d) + 40, 0), 610),
       Co2Line("rec", Date("iso", DayStart(d) + 65, 0), 620),
       Co2Line("junk", BadDate, 0)>>}

NoDays == [co2day |-> 0, hrday |-> 0]
NoSnap == [valid |-> FALSE, fused |-> <<>>, report |-> <<>>]

JoinIdle ==
    /\ jco2 = <<>>
    /\ jhr = <<>>
    /\ jtol = Tol180
    /\ jout = <<>>
    /\ jprev = <<>>
    /\ jruns = 0

DecodeIdle ==
    /\ co2text = <<>>
    /\ records = <<>>
    /\ recordsV2 = <<>>
    /\ co2_1m = <<>>
    /\ cdone = {}

PostIdle ==
    /\ calls = <<>>
    /\ acks = <<>>

RunIdle ==
    /\ pc = "idle"
    /\ queue = <<>>
    /\ cur = 0
    /\ hr = <<>>
    /\ co2df = <<>>
    /\ merged = <<>>
    /\ report = [d \in Days |-> NoReport]
    /\ runs = 0
    /\ ingests = 0
    /\ dayState = [d \in Days |-> "NONE"]
    /\ decoded = [d \in Days |-> 0]
    /\ wrote = [d \in Days |-> FALSE]
    /\ lastComplete = [d \in Days |-> NoFile]
    /\ snap = NoSnap
    /\ inputsChanged = FALSE

Init ==
    /\ JoinIdle
    /\ DecodeIdle
    /\ PostIdle
    /\ RunIdle
    /\ raw \in {f \in [Days -> UNION {RawChoices(d) : d \in Days}] :
                  \A d \in Days : f[d] \in RawChoices(d)}
    /\ co2 \in {f \in [Days -> UNION {Co2Choices(d) : d \in Days}] :
                  \A d \in Days : f[d] \in Co2Choices(d)}
    /\ flat = [d \in Days |-> NoFile]
    /\ fused = [d \in Days |-> NoFile]
    /\ fusedV2 = [d \in Days |-> NoFile]
    /\ flatNewest = 0
    /\ v2from = NoDays

Stopped == {"idle", "done", "aborted", "ioerror", "killed"}
Running == {"flatten", "normalize", "join", "open", "write"}

\* ------------------------------------------------------------------------
\* health_ingest.py sink: POST /health with payload p, served between runs
\* ------------------------------------------------------------------------
\* return {"status": "ok", "rows_written": len(rows)}
Ack(n) == [status |-> "ok", rows_written |-> n]
\* the handler raised: the framework answers 500, without an acknowledgement
ServerError == [status |-> "error", rows_written |-> 0]

\* the handler, on local calendar day d: the payload is archived first,
\* then the heart-rate rows are collected and appended if there are any
Sink(p, d) ==
    /\ calls' = Append(calls, p)
    /\ raw' = [raw EXCEPT ![d] = File(@.rows \o <<p>>)]
    /\ IF IngestRaises(p)
       THEN /\ acks' = Append(acks, ServerError)
            /\ UNCHANGED <<flat, flatNewest>>
       ELSE /\ acks' = Append(acks, Ack(Len(IngestRows(p))))
            /\ IF IngestRows(p) # <<>>
               THEN /\ flat' = [flat EXCEPT ![d] = File(@.rows \o IngestRows(p))]
                    /\ flatNewest' = d
               ELSE UNCHANGED <<flat, flatNewest>>

Ingest(p) ==
    /\ pc \in Stopped
    /\ ingests < MaxIngest
    /\ ingests' = ingests + 1
    /\ inputsChanged' = TRUE
    /\ Sink(p, Today)
    /\ UNCHANGED <<co2, fused, fusedV2, v2from>>
    /\ UNCHANGED <<varsRun, varsJoin, varsDecode, dayState, decoded, wrote,
                   lastComplete, snap>>

\* ------------------------------------------------------------------------
\* fusionv3.py main loop
\* ------------------------------------------------------------------------
\* the loop moves to the next raw file of q, or ends
Advance(q) ==
    IF q = <<>>
    THEN pc' = "done" /\ cur' = 0 /\ queue' = <<>>
    ELSE pc' = "flatten" /\ cur' = Head(q) /\ queue' = Tail(q)

\* sorted(RAW_DIR.glob("bio_*.csv"), key=mtime): bio_<day>.csv is written
\* on day <day> only, so the mtime order is the order of the days
Discovered == {d \in Days : raw[d].exists}

RunStart ==
    /\ pc \in Stopped
    /\ runs < MaxRuns
    /\ runs' = runs + 1
    /\ Advance(SetToSortedSeq(Discovered))
    /\ hr' = <<>>
    /\ co2df' = <<>>
    /\ merged' = <<>>
    /\ report' = [d \in Days |-> NoReport]
    /\ dayState' = [d \in Days |-> IF d \in Discovered THEN "DISCOVERED" ELSE "NONE"]
    /\ decoded' = [d \in Days |-> 0]
    /\ wrote' = [d \in Days |-> FALSE]
    /\ snap' = IF pc \in {"done", "aborted"} /\ ~inputsChanged
               THEN [valid |-> TRUE, fused |-> fused, report |-> report]
               ELSE NoSnap
    /\ inputsChanged' = FALSE
    /\ UNCHANGED <<varsFiles, varsJoin, varsDecode, varsPost, ingests, lastComplete>>

\* flat_csv = flatten_hr(raw_csv)
Flatten ==
    /\ pc = "flatten"
    /\ LET rows == FlattenRows(raw[cur].rows)
       IN  /\ flat' = [flat EXCEPT ![cur] = FlatAfterFlatten(@, rows)]
           /\ flatNewest' = IF rows # <<>> THEN cur ELSE flatNewest
           /\ decoded' = [decoded EXCEPT ![cur] = Len(rows)]
    /\ dayState' = [dayState EXCEPT ![cur] = "DECODED"]
    /\ pc' = "normalize"
    /\ UNCHANGED <<raw, co2, fused, fusedV2, v2from, queue, cur, hr, co2df, merged, report,
                   runs, ingests, wrote, lastComplete, snap, inputsChanged, varsJoin,
                   varsDecode, varsPost>>

\* the day ends without output: the diagnostic is printed, the loop continues
Skip(diag) ==
    /\ report' = [report EXCEPT ![cur] = diag]
    /\ dayState' = [dayState EXCEPT ![cur] = "SKIPPED"]
    /\ Advance(queue)
    /\ UNCHANGED <<varsFiles, merged, runs, ingests, decoded, wrote, lastComplete,
                   snap, inputsChanged, varsJoin, varsDecode, varsPost>>

\* if not flat_csv.exists(): skip
SkipNoFlat ==
    /\ pc = "normalize"
    /\ ~flat[cur].exists
    /\ UNCHANGED <<hr, co2df>>
    /\ Skip(SkipHr)

\* pd.to_datetime raises on a timestamp that does not parse; nothing
\* catches it, the process ends
ReadHrAbort ==
    /\ pc = "normalize"
    /\ flat[cur].exists
    /\ ReadHrRaises(flat[cur].rows)
    /\ pc' = "aborted"
    /\ UNCHANGED <<varsFiles, queue, cur, hr, co2df, merged, report, runs, ingests,
                   varsHist, inputsChanged, varsJoin, varsDecode, varsPost>>

\* if hr.empty: skip
SkipHrEmpty ==
    /\ pc = "normalize"
    /\ flat[cur].exists
    /\ ~ReadHrRaises(flat[cur].rows)
    /\ ReadHr(flat[cur].rows) = <<>>
    /\ hr' = <<>>
    /\ UNCHANGED co2df
    /\ Skip(SkipHr)

\* co2 = load_day_co2(day); if co2.empty: skip
SkipNoCo2 ==
    /\ pc = "normalize"
    /\ flat[cur].exists
    /\ ~ReadHrRaises(flat[cur].rows)
    /\ ReadHr(flat[cur].rows) # <<>>
    /\ load_day_co2(co2[cur]) = <<>>
    /\ hr' = ReadHr(flat[cur].rows)
    /\ co2df' = <<>>
    /\ Skip(SkipCo2)

\* both frames hold rows
Normalized ==
    /\ pc = "normalize"
    /\ flat[cur].exists
    /\ ~ReadHrRaises(flat[cur].rows)
    /\ ReadHr(flat[cur].rows) # <<>>
    /\ load_day_co2(co2[cur]) # <<>>
    /\ hr' = ReadHr(flat[cur].rows)
    /\ co2df' = load_day_co2(co2[cur])
    /\ dayState' = [dayState EXCEPT ![cur] = "NORMALIZED"]
    /\ pc' = "join"
    /\ UNCHANGED <<varsFiles, queue, cur, merged, report, runs, ingests, decoded,
                   wrote, lastComplete, snap, inputsChanged, varsJoin, varsDecode, varsPost>>

\* merged = pd.merge_asof(..., tolerance=pd.Timedelta("3min"))
Joined ==
    /\ pc = "join"
    /\ merged' = merge_asof(sort_values(co2df), sort_values(hr), Tol180)
    /\ dayState' = [dayState EXCEPT ![cur] = "JOINED"]
    /\ pc' = "open"
    /\ UNCHANGED <<varsFiles, queue, cur, hr, co2df, report, runs, ingests, decoded,
                   wrote, lastComplete, snap, inputsChanged, varsJoin, varsDecode, varsPost>>

\* merged.to_csv(out): the file is opened for writing in place, which
\* creates it or cuts it to length zero
WriteOpen ==
    /\ pc = "open"
    /\ fused' = [fused EXCEPT ![cur] = File(<<>>)]
    /\ wrote' = [wrote EXCEPT ![cur] = TRUE]
    /\ pc' = "write"
    /\ UNCHANGED <<raw, flat, co2, fusedV2, flatNewest, v2from, queue, cur, hr, co2df, merged,
                   report, runs, ingests, dayState, decoded, lastComplete, snap,
                   inputsChanged, varsJoin, varsDecode, varsPost>>

\* ... the rows reach the file one after the other
WriteRow ==
    /\ pc = "write"
    /\ Len(fused[cur].rows) < Len(merged)
    /\ fused' = [fused EXCEPT ![cur] = File(Append(@.rows, merged[Len(@.rows) + 1]))]
    /\ UNCHANGED <<raw, flat, co2, fusedV2, flatNewest, v2from, varsRun, ingests, varsHist,
                   inputsChanged, varsJoin, varsDecode, varsPost>>

\* ... the file is closed, the report is printed, the loop continues
WriteClose ==
    /\ pc = "write"
    /\ Len(fused[cur].rows) = Len(merged)
    /\ report' = [report EXCEPT ![cur] = WroteReport(co2df, hr, merged)]
    /\ dayState' = [dayState EXCEPT ![cur] = "WRITTEN"]
    /\ lastComplete' = [lastComplete EXCEPT ![cur] = fused[cur]]
    /\ Advance(queue)
    /\ UNCHANGED <<varsFiles, hr, co2df, merged, runs, ingests, decoded, wrote, snap,
                   inputsChanged, varsJoin, varsDecode, varsPost>>

\* to_csv raises OSError (destination unwritable, device full) before or
\* while it writes; nothing catches it, the process ends
WriteFail ==
    /\ pc \in {"open", "write"}
    /\ pc' = "ioerror"
    /\ UNCHANGED <<varsFiles, queue, cur, hr, co2df, merged, report, runs, ingests,
                   varsHist, inputsChanged, varsJoin, varsDecode, varsPost>>

\* the process is terminated from outside
Kill ==
    /\ pc \in Running
    /\ pc' = "killed"
    /\ UNCHANGED <<varsFiles, queue, cur, hr, co2df, merged, report, runs, ingests,
                   varsHist, inputsChanged, varsJoin, varsDecode, varsPost>>

\* ------------------------------------------------------------------------
\* fusionv2.py: the single-shot script, run between fusionv3 runs
\* ------------------------------------------------------------------------
\* max(CO2_DIR.glob("co2_*.json"), key=mtime): the logger writes day after
\* day, so the newest file is the one of the latest day that has lines
Co2Days == {d \in Days : co2[d] # <<>>}
\* pd.to_datetime(hr["timestamp"]) without utc=True: text without an offset
\* stays naive; text with an offset becomes zone-aware, and merge_asof
\* refuses keys of two kinds; text that does not parse raises
V2HrUsable(rows) == \A i \in 1..Len(rows) : rows[i].timestamp.kind = "naive"
V2HrFrame(rows) ==
    [i \in 1..Len(rows) |-> [timestamp |-> rows[i].timestamp.t, hr_bpm |-> rows[i].hr_bpm]]
\* pd.to_datetime(co2["timestamp"], utc=True) has no errors="coerce"
V2Co2Usable(lines) ==
    /\ SelectSeq(lines, IsRecord) # <<>>
    /\ \A i \in 1..Len(lines) : IsRecord(lines[i]) => lines[i].timestamp.kind # "bad"

\* out = OUT_DIR / f"fused_{dt.date.today()}.csv"
V2OutDay(co2day) == Today

RunFusionV2 ==
    /\ pc \in Stopped
    /\ Co2Days # {}
    /\ flatNewest # 0
    /\ LET c == SetMax(Co2Days)
           h == flatNewest
       IN  /\ V2Co2Usable(co2[c])
           /\ V2HrUsable(flat[h].rows)
           /\ fusedV2' = [fusedV2 EXCEPT ![V2OutDay(c)] =
                  File(merge_asof(sort_values(load_day_co2(co2[c])),
                                  sort_values(V2HrFrame(flat[h].rows)), Tol90))]
           /\ v2from' = [co2day |-> c, hrday |-> h]
    /\ UNCHANGED <<raw, flat, co2, fused, flatNewest, varsRun, ingests, varsHist,
                   inputsChanged, varsJoin, varsDecode, varsPost>>

Next ==
    \/ \E p \in IngestPayloads : Ingest(p)
    \/ RunFusionV2
    \/ RunStart
    \/ Flatten
    \/ SkipNoFlat
    \/ ReadHrAbort
    \/ SkipHrEmpty
    \/ SkipNoCo2
    \/ Normalized
    \/ Joined
    \/ WriteOpen
    \/ WriteRow
    \/ WriteClose
    \/ WriteFail
    \/ Kill

Spec == Init /\ [][Next]_vars

\* ------------------------------------------------------------------------
\* The join on its own: inputs drawn from bounded sets, then joined
\* ------------------------------------------------------------------------
\* a resampled CO2 series: some of the minute slots, ascending, none twice
PrimarySeries ==
    {[i \in 1..Len(q) |-> [timestamp |-> q[i] * BucketWidth, co2_ppm |-> 600 + q[i]]] :
        q \in {SetToSortedSeq(M) : M \in (SUBSET (0..(MaxMin - 1))) \ {{}}}}

\* heart-rate instants around minute 00:02 (120 s): at the tolerance edge,
\* one second beyond it, and 5 s away (00:01:55, 00:02:05)
HrTimes(tol) ==
    {120 - tol - 1, 120 - tol, 115, 125, 120 + tol, 120 + tol + 1}

\* heart-rate series of up to MaxHr rows in any order; the k-th row of the
\* file carries hr_bpm 60 + k, so every sample is told apart by its value
SecondarySeries(tol) ==
    {[k \in 1..Len(q) |-> [timestamp |-> q[k], hr_bpm |-> 60 + k]] :
        q \in SeqsUpTo(HrTimes(tol), MaxHr)}

InitJoin ==
    /\ jtol \in Tolerances
    /\ jco2 \in PrimarySeries
    /\ jhr \in SecondarySeries(jtol)
    /\ jout = <<>>
    /\ jprev = <<>>
    /\ jruns = 0
    /\ DecodeIdle
    /\ PostIdle
    /\ RunIdle
    /\ raw = [d \in Days |-> NoFile]
    /\ co2 = [d \in Days |-> <<>>]
    /\ flat = [d \in Days |-> NoFile]
    /\ fused = [d \in Days |-> NoFile]
    /\ fusedV2 = [d \in Days |-> NoFile]
    /\ flatNewest = 0
    /\ v2from = NoDays

\* fusionv3.py 132-138 (tolerance 3 min), fusionv2.py 120-126 (90 s),
\* old_fusion_code/fusionv2.py 95-101 (600 s)
JoinRun ==
    /\ jruns < MaxJoinRuns
    /\ jout' = merge_asof(sort_values(jco2), sort_values(jhr), jtol)
    /\ jprev' = jout
    /\ jruns' = jruns + 1
    /\ UNCHANGED <<jco2, jhr, jtol, varsPipeline, varsDecode, varsPost>>

NextJoin == JoinRun

SpecJoin == InitJoin /\ [][NextJoin]_vars

\* distance from instant t to the nearest of the samples (not empty)
MinDist(t, samples) == SetMin({Abs(samples[j].timestamp - t) : j \in 1..Len(samples)})

\* C1: the join emits exactly one fused row per primary row, in primary
\* order, with the primary row's timestamp and values, whatever the
\* secondary series and the tolerance are.
C1_LeftJoinComplete ==
    jruns > 0 =>
        /\ Len(jout) = Len(jco2)
        /\ \A i \in 1..Len(jco2) :
              /\ jout[i].timestamp = jco2[i].timestamp
              /\ jout[i].co2_ppm = jco2[i].co2_ppm

\* a join of several primary rows of which some found a sample and some not
C1_Witness ==
    /\ jruns > 0
    /\ Len(jco2) >= 3
    /\ Len(jhr) >= 2
    /\ \E i \in 1..Len(jout) : jout[i].hr_bpm = NaN
    /\ \E i \in 1..Len(jout) : jout[i].hr_bpm # NaN

\* the end-to-end scenario: minutes 00:00..00:04, one sample at 00:02:05, 90 s
Scenario ==
    /\ jruns > 0
    /\ jtol = Tol90
    /\ [i \in 1..Len(jco2) |-> jco2[i].timestamp] = <<0, 60, 120, 180, 240>>
    /\ Len(jhr) = 1
    /\ jhr[1].timestamp = 125

\* C2 as stated: in the scenario the fused table has 5 rows and exactly the
\* row at 00:02 has a non-null hr_bpm.
C2_OnlyRow0002Matches ==
    Scenario =>
        /\ Len(jout) = 5
        /\ \A i \in 1..Len(jout) :
              (jout[i].hr_bpm # NaN) <=> (jout[i].timestamp = 120)

\* C2 amended: in the scenario the fused table has 5 rows; the rows at
\* 00:01, 00:02 and 00:03 (all within 90 s of 00:02:05) carry the sample's
\* hr_bpm and the rows at 00:00 and 00:04 have a null hr_bpm.
C2_RowsWithin90sMatch ==
    Scenario =>
        /\ Len(jout) = 5
        /\ \A i \in 1..Len(jout) :
              /\ jout[i].timestamp \in {60, 120, 180} => jout[i].hr_bpm = jhr[1].hr_bpm
              /\ jout[i].timestamp \in {0, 240} => jout[i].hr_bpm = NaN

C2_Witness == Scenario

\* C3: a primary row whose nearest sample lies at distance exactly T (before
\* or after) carries the values of a sample at that distance; a primary row
\* whose nearest sample lies farther than T has a null hr_bpm.
C3_ToleranceBoundary ==
    jruns > 0 /\ jhr # <<>> =>
        \A i \in 1..Len(jco2) :
            LET t == jco2[i].timestamp
                d == MinDist(t, jhr)
            IN  /\ d = jtol =>
                      \E j \in 1..Len(jhr) :
                          /\ Abs(jhr[j].timestamp - t) = jtol
                          /\ jout[i].hr_bpm = jhr[j].hr_bpm
                /\ d > jtol => jout[i].hr_bpm = NaN

\* one row whose nearest sample is exactly T away and one whose nearest
\* sample is one second farther
C3_Witness ==
    /\ jruns > 0
    /\ jhr # <<>>
    /\ \E i \in 1..Len(jco2) :
          MinDist(jco2[i].timestamp, jhr) = jtol /\ jout[i].hr_bpm # NaN
    /\ \E i \in 1..Len(jco2) :
          MinDist(jco2[i].timestamp, jhr) > jtol /\ jout[i].hr_bpm = NaN

\* samples a and b lie at the same distance before and after instant t,
\* within the tolerance, and no sample is nearer
Tie(t, a, b) ==
    /\ jhr[a].timestamp < t
    /\ t < jhr[b].timestamp
    /\ t - jhr[a].timestamp = jhr[b].timestamp - t
    /\ t - jhr[a].timestamp <= jtol
    /\ MinDist(t, jhr) = t - jhr[a].timestamp

\* C4: on a tie within the tolerance the fused row takes the values of the
\* earlier sample, and a repeated join of the same inputs yields the same
\* fused table.
C4_TieBreakEarlier ==
    /\ jruns > 0 =>
          \A i \in 1..Len(jco2) : \A a, b \in 1..Len(jhr) :
              Tie(jco2[i].timestamp, a, b) =>
                  \E e \in 1..Len(jhr) :
                      /\ jhr[e].timestamp = jhr[a].timestamp
                      /\ jout[i].hr_bpm = jhr[e].hr_bpm
    /\ jruns > 1 => jout = jprev

\* a tie was joined twice
C4_Witness ==
    /\ jruns > 1
    /\ \E i \in 1..Len(jco2) : \E a, b \in 1..Len(jhr) :
          Tie(jco2[i].timestamp, a, b) /\ jout[i].hr_bpm = jhr[a].hr_bpm

\* ------------------------------------------------------------------------
\* Claims about the multi-day run
\* ------------------------------------------------------------------------
Terminal == {"WRITTEN", "SKIPPED"}
\* the days the current run discovered
Seen == {d \in Days : dayState[d] # "NONE"}
\* the run ended by itself: the loop ran out, or an exception ended it
Ended == {"done", "aborted", "ioerror"}

\* C5: a run that follows a run over unchanged raw heart-rate and CO2 files
\* leaves every fused file and every report line as the earlier run left them.
C5_Idempotent ==
    pc \in {"done", "aborted"} /\ snap.valid /\ ~inputsChanged =>
        /\ fused = snap.fused
        /\ report = snap.report

\* a second complete run over unchanged inputs that wrote a day with a
\* match and skipped another
C5_Witness ==
    /\ pc = "done"
    /\ snap.valid
    /\ ~inputsChanged
    /\ runs = 2
    /\ \E d \in Days : report[d].kind = "wrote" /\ report[d].matches > 0
    /\ \E d \in Days : report[d].kind \in {"skip_hr", "skip_co2"}

\* a day whose raw file yields beats with a heart rate and that has CO2 rows
ValidDay(d) ==
    /\ FlattenRows(raw[d].rows) # <<>>
    /\ ~ReadHrRaises(FlattenRows(raw[d].rows))
    /\ ReadHr(FlattenRows(raw[d].rows)) # <<>>
    /\ load_day_co2(co2[d]) # <<>>

\* C6, the second half: when a run that skipped a day ends normally, the
\* valid days after the skipped one have been written
C6_LaterValidDayWritten ==
    pc = "done" /\ ~inputsChanged =>
        \A d, e \in Seen :
            dayState[d] = "SKIPPED" /\ d < e /\ ValidDay(e) => dayState[e] = "WRITTEN"

\* C6 as stated: a day with CO2 lines from whose raw file the run decoded
\* no beat gets the skip diagnostic and no fused file is opened for it in
\* the run, whatever the flat store held; a valid day after it in the
\* batch is still written.
C6_ZeroBeatsDaySkipped ==
    /\ \A d \in Seen :
          dayState[d] # "DISCOVERED" /\ decoded[d] = 0 /\ co2[d] # <<>> =>
              /\ ~wrote[d]
              /\ dayState[d] \in Terminal => report[d] = SkipHr
    /\ C6_LaterValidDayWritten

\* C7 as stated: when a failure of one day ends a run, every other
\* discovered day has still been brought to WRITTEN or SKIPPED.
C7_NoWholeRunAbort ==
    pc \in Ended => \A d \in Seen \ {cur} : dayState[d] \in Terminal

\* what the viewer's pd.read_csv(file_choice) finds for day d right now
ViewerReads(d) == fused[d]

\* C8 as stated: at every moment the fused file of a day is absent, or the
\* complete table of an earlier write, or the complete table of this run.
C8_AtomicOutput ==
    \A d \in Days :
        \/ ~ViewerReads(d).exists
        \/ ViewerReads(d) = lastComplete[d]
        \/ d = cur /\ pc = "write" /\ ViewerReads(d).rows = merged

Stages == <<"DISCOVERED", "DECODED", "NORMALIZED", "JOINED", "WRITTEN">>
\* the steps a day may take
AllowedSteps ==
    {<<Stages[i], Stages[i + 1]>> : i \in 1..(Len(Stages) - 1)}
        \cup {<<"DISCOVERED", "SKIPPED">>, <<"DECODED", "SKIPPED">>}

\* C9, the steps: within a run a day moves only along the stages or into
\* SKIPPED from DISCOVERED or DECODED, and never leaves WRITTEN or SKIPPED.
C9_StepsAllowed ==
    [][(pc \in Running =>
          (\A d \in Days : (dayState'[d] # dayState[d] =>
              (<<dayState[d], dayState'[d]>> \in AllowedSteps))))]_vars

\* C9 as stated, the part a state shows: the day in work is the only one
\* between DISCOVERED and a terminal stage, the days before it are terminal,
\* the days after it are DISCOVERED; and when the run has ended every
\* discovered day is WRITTEN or SKIPPED.
C9_DayStateMachine ==
    /\ \A d \in Seen :
          /\ dayState[d] \notin Terminal \cup {"DISCOVERED"} => d = cur
          /\ pc \in Running /\ d < cur => dayState[d] \in Terminal
          /\ pc \in Running /\ d > cur => dayState[d] = "DISCOVERED"
    /\ pc \in Ended => \A d \in Seen : dayState[d] \in Terminal

\* C10, fusionv3: a day the run has written holds exactly the table fused
\* from the day's flat heart-rate rows and CO2 lines
C10_V3Overwrites ==
    \A d \in Days :
        dayState[d] = "WRITTEN" =>
            ViewerReads(d).rows =
                merge_asof(sort_values(load_day_co2(co2[d])),
                           sort_values(ReadHr(flat[d].rows)), Tol180)

\* C10, the frame: a write for the day in work leaves the fused files of
\* the other days as they are
C10_V3Frame ==
    [][(\A d \in Days : (fused'[d] # fused[d] => (d = cur /\ pc \in {"open", "write"})))]_vars

\* C10, fusionv2: the fused file of day d was fused from the CO2 file and
\* the flat file of day d
C10_V2KeyedByInputDay ==
    \A d \in Days : fusedV2[d].exists => v2from = [co2day |-> d, hrday |-> d]

\* C10 as stated: a written fused file holds exactly the rows of the run
\* that wrote it, and its day key is the day in the names of the files
\* that were fused, not the day of the run.
C10_OverwriteKeyedByInputDay ==
    /\ C10_V3Overwrites
    /\ C10_V2KeyedByInputDay

\* ------------------------------------------------------------------------
\* The CO2 decoder on its own: one log file drawn from bounded sets, then
\* read by load_day_co2 and by the reader of fusionv2.py
\* ------------------------------------------------------------------------
\* largest number of lines of a drawn CO2 log file
MaxLines == 3

\* no file in any directory
NoFiles ==
    /\ raw = [d \in Days |-> NoFile]
    /\ co2 = [d \in Days |-> <<>>]
    /\ flat = [d \in Days |-> NoFile]
    /\ fused = [d \in Days |-> NoFile]
    /\ fusedV2 = [d \in Days |-> NoFile]
    /\ flatNewest = 0
    /\ v2from = NoDays

\* what a line of the log may look like: an element with or without its
\* separator and white space, a bracket, a blank line, an object cut short
LineTexts ==
    {<<"{}", " ">>, <<"{}", ",", " ">>, <<" ", "{}", " ", ",", " ">>,
     <<"[", " ">>, <<"]", " ">>, <<" ">>, <<>>, <<"{">>}

\* the object of the k-th line of a file: a sample every 25 s
ObjAt(k) == Co2Line("rec", Date("iso", 25 * k, 0), 600 + 7 * k)

\* files that vary the text of the lines
TextFiles ==
    {[k \in 1..Len(q) |-> TextLine(q[k], ObjAt(k))] : q \in SeqsUpTo(LineTexts, MaxLines)}

\* timestamps of a sample: at and next to the bucket edges 00:01:00 and
\* 00:02:00, at 00:03:00, with a UTC offset (01:00:30+01:00 is 00:00:30),
\* and text that does not parse
SampleDates ==
    {Date("iso", 0, 0), Date("iso", 59, 0), Date("iso", 60, 0), Date("iso", 119, 0),
     Date("iso", 180, 0), Date("iso", 3630, 3600), BadDate}
\* a sample: its timestamp and whether it carries a co2_ppm value
SampleChoices ==
    {<<d, TRUE>> : d \in SampleDates} \cup {<<Date("iso", 60, 0), FALSE>>}

\* files that vary the samples, in any order
SampleFiles ==
    {[k \in 1..Len(q) |->
         TextLine(<<"{}", ",", " ">>,
                  Co2Line("rec", q[k][1], IF q[k][2] THEN 600 + 7 * k ELSE NaN))] :
        q \in SeqsUpTo(SampleChoices, MaxLines)}

\* samples at 00:00:10, 00:00:40, 00:01:05, 00:01:50, 00:02:30 with
\* 600, 610, 620, 630, 640 ppm
ExampleTimes == <<10, 40, 65, 110, 150>>
ExampleFile ==
    [k \in 1..Len(ExampleTimes) |->
        TextLine(<<"{}", ",", " ">>,
                 Co2Line("rec", Date("iso", ExampleTimes[k], 0), 590 + 10 * k))]

InitDecode ==
    /\ co2text \in TextFiles \cup SampleFiles \cup {ExampleFile}
    /\ records = <<>>
    /\ recordsV2 = <<>>
    /\ co2_1m = <<>>
    /\ cdone = {}
    /\ JoinIdle
    /\ PostIdle
    /\ RunIdle
    /\ NoFiles

\* load_day_co2 over the one file of the day
LoadDayCo2 ==
    /\ "v3" \notin cdone
    /\ records' = ReadRecords(co2text)
    /\ co2_1m' = load_day_co2(ReadRecords(co2text))
    /\ cdone' = cdone \cup {"v3"}
    /\ UNCHANGED <<co2text, recordsV2, varsJoin, varsPipeline, varsPost>>

\* fusionv2.py 93-104 over the same file
ReadCo2V2 ==
    /\ "v2" \notin cdone
    /\ recordsV2' = ReadRecordsV2(co2text)
    /\ cdone' = cdone \cup {"v2"}
    /\ UNCHANGED <<co2text, records, co2_1m, varsJoin, varsPipeline, varsPost>>

NextDecode ==
    \/ LoadDayCo2
    \/ ReadCo2V2

SpecDecode == InitDecode /\ [][NextDecode]_vars

\* the line is one complete object, with nothing but white space around
\* it and at most one separator after it
HoldsObject(ln) ==
    SelectSeq(ln.text, LAMBDA c : c # " ") \in {<<"{}">>, <<"{}", ",">>}
\* the objects of the lines that hold one, in the order of the lines
ObjectsOf(lines) ==
    LET good == SelectSeq(lines, HoldsObject)
    IN  [i \in 1..Len(good) |-> good[i].obj]

InstantOf(rec) == to_datetime_utc(rec.timestamp)
\* the decoded samples with an instant in [k, k + 60) and a co2_ppm value
Contributing(k) ==
    {i \in 1..Len(records) :
        /\ HasInstant(records[i])
        /\ HasPpm(records[i])
        /\ k <= InstantOf(records[i])
        /\ InstantOf(records[i]) < k + BucketWidth}
RECURSIVE SumAt(_)
SumAt(S) ==
    IF S = {} THEN 0
    ELSE LET i == CHOOSE x \in S : TRUE IN records[i].co2_ppm + SumAt(S \ {i})
\* the rows of the frame whose bucket [timestamp, timestamp + 60) holds t
RowsHolding(t) ==
    {j \in 1..Len(co2_1m) :
        co2_1m[j].timestamp <= t /\ t < co2_1m[j].timestamp + BucketWidth}
MeanRow(k, ppm) == [timestamp |-> k, co2_ppm |-> [num |-> ppm, den |-> 1]]

MaxBeats == 3

\* a heart_rate entry r seconds into day 1, stamped in UTC
BeatAt(r, avg, value, min, max) == Beat(Date("iso", DayStart(1) + r, 0), avg, value, min, max)
\* the entries a payload is drawn from: an average at 00:03:20; a plain
\* value at the same instant; only Min and Max at 00:01:40; an average at
\* 00:08:20, far from every CO2 minute; an entry without a date; and an
\* entry whose Avg is null beside a value
BeatChoices ==
    {BeatAt(200, 70, Missing, 68, 72),
     BeatAt(200, Missing, 80, Missing, Missing),
     BeatAt(100, Missing, Missing, 60, 90),
     BeatAt(500, 75, Missing, 74, 76),
     Beat(Date("missing", 0, 0), 71, Missing, 69, 73),
     BeatAt(20, NaN, 85, Missing, Missing)}
\* the payload of another POST of the day: one entry at 00:00:30
PayloadOther == Payload("wrapped", <<BeatAt(30, 66, Missing, 65, 67)>>)

\* bio_1.csv: one row with a drawn payload, alone or beside another row
RawFilesHr ==
    UNION {{File(<<Payload("wrapped", b)>>),
            File(<<Payload("wrapped", b), PayloadOther>>),
            File(<<PayloadOther, Payload("wrapped", b)>>)} :
              b \in SeqsUpTo(BeatChoices, MaxBeats)}

InitHr ==
    /\ raw \in {[d \in Days |-> IF d = 1 THEN f ELSE NoFile] : f \in RawFilesHr}
    /\ co2 = [d \in Days |->
                 IF d = 1
                 THEN <<Co2Line("rec", Date("iso", DayStart(1) + 10, 0), 600),
                        Co2Line("rec", Date("iso", DayStart(1) + 40, 0), 610),
                        Co2Line("rec", Date("iso", DayStart(1) + 65, 0), 620)>>
                 ELSE <<>>]
    /\ flat = [d \in Days |-> NoFile]
    /\ fused = [d \in Days |-> NoFile]
    /\ fusedV2 = [d \in Days |-> NoFile]
    /\ flatNewest = 0
    /\ v2from = NoDays
    /\ JoinIdle
    /\ DecodeIdle
    /\ PostIdle
    /\ RunIdle

NextHr ==
    \/ RunStart
    \/ Flatten
    \/ SkipNoFlat
    \/ SkipHrEmpty
    \/ Normalized
    \/ Joined
    \/ WriteOpen
    \/ WriteRow
    \/ WriteClose

SpecHr == InitHr /\ [][NextHr]_vars

\* the heart_rate entries of all rows of a raw archive, in file order
RECURSIVE AllBeats(_)
AllBeats(rawRows) ==
    IF rawRows = <<>> THEN <<>>
    ELSE (IF rawRows[1].shape = "wrapped" THEN rawRows[1].beats ELSE <<>>)
             \o AllBeats(Tail(rawRows))
HasDate(beat) == beat.date.kind # "missing"
\* the field is there and is not null
Carries(v) == v \notin {Missing, NaN}
\* the values the precedence list allows for an entry
Preferred(beat) ==
    IF Carries(beat.Avg) THEN {beat.Avg}
    ELSE IF Carries(beat.value) THEN {beat.value}
    ELSE {v \in {beat.Min, beat.Max} : Carries(v)}
\* flatten_hr has run over the raw file of day d in this run
Flattened(d) == dayState[d] \notin {"NONE", "DISCOVERED"}

\* C13 as stated: the hr_bpm flatten_hr extracts for an entry is its Avg
\* when that carries a value, else its value, else its Min or Max, so an
\* entry with only Min and Max gets a non-null hr_bpm.  (Stated over raw
\* files in which every entry has a date.)
C13_ValuePrecedence ==
    \A d \in Days :
        LET beats == AllBeats(raw[d].rows)
        IN  Flattened(d) /\ beats # <<>> /\ (\A i \in 1..Len(beats) : HasDate(beats[i])) =>
                /\ Len(flat[d].rows) = Len(beats)
                /\ \A i \in 1..Len(beats) :
                      Preferred(beats[i]) # {} => flat[d].rows[i].hr_bpm \in Preferred(beats[i])

\* C13, the part that holds: the Avg is taken when the entry has the key,
\* else the value
C13_AvgThenValue ==
    \A d \in Days :
        LET beats == AllBeats(raw[d].rows)
        IN  Flattened(d) /\ beats # <<>> /\ (\A i \in 1..Len(beats) : HasDate(beats[i])) =>
                /\ Len(flat[d].rows) = Len(beats)
                /\ \A i \in 1..Len(beats) :
                      /\ beats[i].Avg # Missing => flat[d].rows[i].hr_bpm = beats[i].Avg
                      /\ beats[i].Avg = Missing /\ beats[i].value # Missing =>
                            flat[d].rows[i].hr_bpm = beats[i].value

\* ------------------------------------------------------------------------
\* The ingest endpoint on its own: a fresh installation, then POST /health
\* calls with payloads drawn from a bounded set, all on the same local day
\* ------------------------------------------------------------------------
\* POST /health calls made to the endpoint
MaxCalls == 3

\* metrics at the top level with two entries, both with a date
PayloadTopTwo(d) ==
    Payload("top", <<Beat(Date("naive", DayStart(d) + 230, 0), Missing, 80, Missing, Missing),
                     Beat(Date("naive", DayStart(d) + 290, 0), 82, Missing, 81, 83)>>)
\* metrics at the top level with two entries, the second without a date
PayloadTopNoDate(d) ==
    Payload("top", <<Beat(Date("naive", DayStart(d) + 350, 0), 84, Missing, 83, 85),
                     Beat(Date("missing", 0, 0), 86, Missing, 85, 87)>>)

PostPayloads ==
    {PayloadTop(Today), PayloadTopTwo(Today), PayloadTopNoDate(Today),
     PayloadWrapped(Today), PayloadJunk}

InitIngest ==
    /\ NoFiles
    /\ JoinIdle
    /\ DecodeIdle
    /\ PostIdle
    /\ RunIdle

\* POST /health with payload p
Post(p) ==
    /\ Len(calls) < MaxCalls
    /\ ingests' = ingests + 1
    /\ inputsChanged' = TRUE
    /\ Sink(p, Today)
    /\ UNCHANGED <<co2, fused, fusedV2, v2from>>
    /\ UNCHANGED <<varsRun, varsJoin, varsDecode, dayState, decoded, wrote,
                   lastComplete, snap>>

NextIngest == \E p \in PostPayloads : Post(p)

SpecIngest == InitIngest /\ [][NextIngest]_vars

\* the heart_rate entries of a payload as the endpoint looks for them
\* (a metrics list at the top level) that can make a row (they have a date)
EntriesOf(p) == IF p.shape = "top" THEN SelectSeq(p.beats, HasDate) ELSE <<>>
RECURSIVE EntryRows(_)
EntryRows(ps) ==
    IF ps = <<>> THEN <<>>
    ELSE [i \in 1..Len(EntriesOf(ps[1])) |-> FlatRow(EntriesOf(ps[1])[i])]
             \o EntryRows(Tail(ps))
\* the payloads of the calls that were acknowledged
RECURSIVE Acked(_, _)
Acked(ps, rs) ==
    IF ps = <<>> THEN <<>>
    ELSE (IF rs[1].status = "ok" THEN <<ps[1]>> ELSE <<>>) \o Acked(Tail(ps), Tail(rs))

\* C14, the archive: the raw file of the day holds one row per call, in
\* call order, and there is no raw file before the first call
C14_ArchiveRowPerCall ==
    /\ raw[Today].rows = calls
    /\ raw[Today].exists <=> calls # <<>>
    /\ \A d \in Days \ {Today} : ~raw[d].exists

\* C14, the acknowledged calls: the flat store holds exactly the entries of
\* the acknowledged calls, and each acknowledgement counts the entries of
\* its payload
C14_AckedCallsFlattened ==
    /\ Len(acks) = Len(calls)
    /\ flat[Today].rows = EntryRows(Acked(calls, acks))
    /\ \A i \in 1..Len(calls) :
          acks[i].status = "ok" => acks[i].rows_written = Len(EntriesOf(calls[i]))

\* C14 as stated: after any sequence of calls the raw file holds one row
\* per call in call order, the flat store holds exactly the heart_rate
\* entries of the payloads of all calls, no flat file exists while no
\* payload had such an entry, and each acknowledgement counts the rows its
\* call appended.
C14_IngestEndpoint ==
    /\ C14_ArchiveRowPerCall
    /\ flat[Today].rows = EntryRows(calls)
    /\ flat[Today].exists <=> EntryRows(calls) # <<>>
    /\ \A i \in 1..Len(acks) :
          acks[i].status = "ok" => acks[i].rows_written = Len(EntriesOf(calls[i]))

\* the rows the ingest endpoint has appended to the flat store of Today
IngestedRows == EntryRows(Acked(calls, acks))

\* C15, the consequence: every row the ingest endpoint appended to the
\* flat store is still there
C15_IngestRowsKept ==
    \A i \in 1..Len(IngestedRows) :
        \E j \in 1..Len(flat[Today].rows) : flat[Today].rows[j] = IngestedRows[i]

\* C15, the frame: the flat store is as the ingest endpoint left it, no
\* run of the pipeline has created or changed a flat file
C15_FlatAsIngestLeftIt ==
    \A d \in Days :
        LET rows == IF d = Today THEN IngestedRows ELSE <<>>
        IN  flat[d] = IF rows = <<>> THEN NoFile ELSE File(rows)

\* C15 as stated: decoding a day's raw archive changes no persisted file,
\* so the flat store holds what the ingest endpoint appended and no row of
\* it is removed or replaced by a run.
C15_DecoderPure ==
    /\ C15_FlatAsIngestLeftIt
    /\ C15_IngestRowsKept

\* the flat rows of the given entries
RowsOf(beats) == [i \in 1..Len(beats) |-> FlatRow(beats[i])]
\* the entries of a raw row that stand before its first entry without a date
DatedPrefix(beats) ==
    SubSeq(beats, 1, Cardinality({i \in 1..Len(beats) : \A j \in 1..i : HasDate(beats[j])}))
RECURSIVE PrefixBeats(_)
PrefixBeats(rawRows) ==
    IF rawRows = <<>> THEN <<>>
    ELSE (IF rawRows[1].shape = "wrapped" THEN DatedPrefix(rawRows[1].beats) ELSE <<>>)
             \o PrefixBeats(Tail(rawRows))

\* C16, the part that holds: an entry without a date costs no entry of
\* another raw row and no entry before it in its own row
C16_OtherRowsAndEarlierEntriesKept ==
    \A d \in Days :
        Flattened(d) /\ PrefixBeats(raw[d].rows) # <<>> =>
            flat[d].rows = RowsOf(PrefixBeats(raw[d].rows))

\* C16 as stated: the records flatten_hr decodes from a day's raw archive
\* are those of all heart_rate entries that have a date, in file order; an
\* entry without a date costs only itself.
C16_MissingDateDropsEntryOnly ==
    \A d \in Days :
        LET dated == SelectSeq(AllBeats(raw[d].rows), HasDate)
        IN  Flattened(d) =>
                /\ decoded[d] = Len(dated)
                /\ dated # <<>> => flat[d].rows = RowsOf(dated)

\* the series the main loop hands to the join for the day in work
Handed == sort_values(hr)
\* the rows of the day's flat file that carry an hr_bpm, by position
NonNull(d) == {i \in 1..Len(flat[d].rows) : flat[d].rows[i].hr_bpm # NaN}
\* the instant of the i-th row of the day's flat file
FlatInstant(d, i) == to_datetime_utc(flat[d].rows[i].timestamp)
\* some row of the day's flat file with an hr_bpm lies within 3 min of t
SampleNear(d, t) == \E i \in NonNull(d) : Abs(FlatInstant(d, i) - t) <= Tol180

\* C17: the series handed to the join ascends by timestamp, has no row with
\* a null hr_bpm and holds every non-null row of the flat file as often as
\* the file does (equal timestamps included); a fused row has an hr_bpm
\* exactly when such a row lies within the tolerance of its timestamp; and
\* the reported number of HR matches is the number of those fused rows.
C17_HrNormalized ==
    /\ pc \in {"join", "open", "write"} =>
          /\ \A j \in 1..(Len(Handed) - 1) : Handed[j].timestamp <= Handed[j + 1].timestamp
          /\ \A j \in 1..Len(Handed) : Handed[j].hr_bpm # NaN
          /\ Len(Handed) = Cardinality(NonNull(cur))
          /\ \A i \in NonNull(cur) :
                Cardinality({j \in 1..Len(Handed) :
                                /\ Handed[j].timestamp = FlatInstant(cur, i)
                                /\ Handed[j].hr_bpm = flat[cur].rows[i].hr_bpm})
                  = Cardinality({k \in NonNull(cur) :
                                /\ FlatInstant(cur, k) = FlatInstant(cur, i)
                                /\ flat[cur].rows[k].hr_bpm = flat[cur].rows[i].hr_bpm})
    /\ pc \in {"open", "write"} =>
          \A i \in 1..Len(merged) :
              merged[i].hr_bpm # NaN <=> SampleNear(cur, merged[i].timestamp)
    /\ \A d \in Days :
          report[d].kind = "wrote" =>
              report[d].matches =
                  Cardinality({i \in 1..Len(fused[d].rows) :
                                  SampleNear(d, fused[d].rows[i].timestamp)})

\* a written day whose flat file held two rows with the same timestamp and
\* a row without hr_bpm, and of whose two fused rows one found a sample
C17_Witness ==
    /\ pc = "done"
    /\ report[1].kind = "wrote"
    /\ report[1].fusedn = 2
    /\ report[1].matches = 1
    /\ \E i, k \in NonNull(1) : i # k /\ FlatInstant(1, i) = FlatInstant(1, k)
    /\ \E i \in 1..Len(flat[1].rows) : i \notin NonNull(1)

====
